---------------------------- MODULE Spec2Model ----------------------------
(***************************************************************************)
(* A model of the notebook main.ipynb: images are copied from a Cloud      *)
(* Storage bucket, labelled by the Vision API, recorded in a BigQuery      *)
(* table through string-formatted SQL, deduplicated, and archived.         *)
(*                                                                         *)
(* Strings are sequences of tokens (one-character strings, or a word that  *)
(* holds no quote, backslash or slash), so that str.replace, repr and the  *)
(* SQL string-literal rules are computed on the text, token by token.      *)
(***************************************************************************)
EXTENDS Integers, Sequences, FiniteSets, Bags, TLC

VARIABLES
  store,        \* the bucket: object name -> [content, ...] of the objects present
  tableExists,  \* whether the BigQuery table exists
  table,        \* the rows of the table, a bag of [file_name, creation_date_time, keywords]
  jobs,         \* the BigQuery jobs submitted and not yet finished, in submission order
  images,       \* the local directory 'images': <<>> when absent, else <<files>>
  keywordsDir,  \* the local directory 'keywords': <<>> when absent, else <<set of plots>>
  file_names,   \* kernel variable file_names
  label_annotation_desc_dict,   \* kernel variable, an ordered dict as a sequence of <<key, value>>
  label_annotation_score_dict,  \* kernel variable, likewise
  prefix_archive,               \* kernel variable: <<>> while undefined, else <<value>>
  df,           \* kernel variable df: <<>> while undefined, else <<bag of rows read>>
  renamed,      \* the 'X renamed to Y' lines printed by the last archive or restore cell
  pc,           \* the cell the run is at (Run All), or the kernel's state
  raised,       \* whether the last cell executed ended in an exception
  log,          \* the BigQuery statement that finished last, and whether any has failed
  tableBefore,  \* the table the last finished statement operated on
  moved,        \* the cell that renamed blobs last, and how it ended
  storeBefore   \* the bucket before the last cell that touched it was first tried

vars == <<store, tableExists, table, jobs, images, keywordsDir, file_names,
          label_annotation_desc_dict, label_annotation_score_dict, prefix_archive,
          df, renamed, pc, raised, log, tableBefore, moved, storeBefore>>

-----------------------------------------------------------------------------
(* Bounds of the model *)

\* the timestamps a file's modification time is drawn from
MaxTime == 2
\* the rows a table holds before a run, and the rows it may grow to
MaxPrior == 1
MaxRows == 4
\* the BigQuery jobs in flight at once
MaxJobs == 2

Times == 1..MaxTime

-----------------------------------------------------------------------------
(* Sequences of tokens *)

Range(s) == {s[i] : i \in 1..Len(s)}

\* s[i..] starts with p
StartsAt(s, i, p) ==
  /\ i + Len(p) - 1 <= Len(s)
  /\ \A k \in 1..Len(p) : s[i + k - 1] = p[k]

StartsWith(s, p) == StartsAt(s, 1, p)

RECURSIVE ReplaceFrom(_, _, _, _)
ReplaceFrom(s, i, old, new) ==
  IF i > Len(s) THEN <<>>
  ELSE IF StartsAt(s, i, old) THEN new \o ReplaceFrom(s, i + Len(old), old, new)
  ELSE <<s[i]>> \o ReplaceFrom(s, i + 1, old, new)

\* Python's s.replace(old, new) for a non-empty old: every non-overlapping
\* occurrence, scanning from the left
Replace(s, old, new) == ReplaceFrom(s, 1, old, new)


-----------------------------------------------------------------------------
(* Python: ordered dicts, repr of a list of str, str of a datetime *)

DictKeys(d) == [i \in 1..Len(d) |-> d[i][1]]

DictHas(d, k) == \E i \in 1..Len(d) : d[i][1] = k

DictGet(d, k) == d[CHOOSE i \in 1..Len(d) : d[i][1] = k][2]

\* d[k] = v: an existing key keeps its place, a new key goes last
DictSet(d, k, v) ==
  IF DictHas(d, k)
  THEN [i \in 1..Len(d) |-> IF d[i][1] = k THEN <<k, v>> ELSE d[i]]
  ELSE Append(d, <<k, v>>)

Q == "'"
DQ == "\""
BS == "\\"

RECURSIVE PyEscape(_, _)
PyEscape(s, quote) ==
  IF s = <<>> THEN <<>>
  ELSE (IF Head(s) \in {quote, BS} THEN <<BS, Head(s)>> ELSE <<Head(s)>>)
       \o PyEscape(Tail(s), quote)

\* repr(s) of a str: double quotes when s holds a single quote and no double
\* quote, single quotes otherwise; the quote in use and the backslash are escaped
PyReprStr(s) ==
  LET quote == IF Q \in Range(s) /\ DQ \notin Range(s) THEN DQ ELSE Q
  IN  <<quote>> \o PyEscape(s, quote) \o <<quote>>

RECURSIVE PyJoinRepr(_)
PyJoinRepr(l) ==
  IF l = <<>> THEN <<>>
  ELSE IF Len(l) = 1 THEN PyReprStr(l[1])
  ELSE PyReprStr(l[1]) \o <<", ">> \o PyJoinRepr(Tail(l))

\* repr(l) of a list of str, as an f-string renders {keywords_temp}
PyReprList(l) == <<"[">> \o PyJoinRepr(l) \o <<"]">>

\* str() of the datetime made from a modification time
DatetimeStr(t) == <<ToString(t)>>

\* one row of a VALUES clause: ('{key}', '{creation_date_time}', {keywords})
ValuesRow(key, t, keywords) ==
  <<Q>> \o key \o <<Q, ", ", Q>> \o DatetimeStr(t) \o <<Q, ", ">>
  \o PyReprList(keywords) \o <<")">>

-----------------------------------------------------------------------------
(* BigQuery: the VALUES clause of an INSERT, read as the SQL lexer reads it *)

SqlFail == [ok |-> FALSE, val |-> <<>>, next |-> 0]

RECURSIVE ScanBody(_, _, _, _)
ScanBody(t, j, q, acc) ==
  IF j > Len(t) THEN SqlFail
  ELSE IF t[j] = q THEN [ok |-> TRUE, val |-> acc, next |-> j + 1]
  ELSE IF t[j] = BS
       THEN IF j + 1 <= Len(t) /\ t[j + 1] \in {Q, DQ, BS}
            THEN ScanBody(t, j + 2, q, Append(acc, t[j + 1]))
            ELSE SqlFail
  ELSE ScanBody(t, j + 1, q, Append(acc, t[j]))

\* a string literal at t[i]: opened by ' or ", closed by the next unescaped
\* quote of the same kind
ScanString(t, i) ==
  IF i <= Len(t) /\ t[i] \in {Q, DQ} THEN ScanBody(t, i + 1, t[i], <<>>) ELSE SqlFail

Expect(t, i, tok) == i <= Len(t) /\ t[i] = tok

RECURSIVE ScanElements(_, _, _)
ScanElements(t, i, acc) ==
  LET s == ScanString(t, i)
  IN  IF ~s.ok THEN SqlFail
      ELSE IF Expect(t, s.next, "]")
           THEN [ok |-> TRUE, val |-> Append(acc, s.val), next |-> s.next + 1]
      ELSE IF Expect(t, s.next, ", ")
           THEN ScanElements(t, s.next + 1, Append(acc, s.val))
      ELSE SqlFail

\* an array literal at t[i]: [] or [str, str, ...]
ScanArray(t, i) ==
  IF ~Expect(t, i, "[") THEN SqlFail
  ELSE IF Expect(t, i + 1, "]") THEN [ok |-> TRUE, val |-> <<>>, next |-> i + 2]
  ELSE ScanElements(t, i + 1, <<>>)

\* a DATETIME column takes a string literal that reads as a datetime
IsDatetime(s) == \E x \in Times : s = DatetimeStr(x)

ToDatetime(s) == CHOOSE x \in Times : s = DatetimeStr(x)

\* one row, after its opening parenthesis: str, str, array )
ScanRow(t, i) ==
  LET f == ScanString(t, i)
      c == ScanString(t, f.next + 1)
      k == ScanArray(t, c.next + 1)
  IN  IF /\ f.ok
         /\ Expect(t, f.next, ", ")
         /\ c.ok
         /\ IsDatetime(c.val)
         /\ Expect(t, c.next, ", ")
         /\ k.ok
         /\ Expect(t, k.next, ")")
      THEN [ok |-> TRUE,
            val |-> [file_name |-> f.val,
                     creation_date_time |-> ToDatetime(c.val),
                     keywords |-> k.val],
            next |-> k.next + 1]
      ELSE SqlFail

RECURSIVE ScanRows(_, _, _)
ScanRows(t, i, acc) ==
  LET r == ScanRow(t, i)
  IN  IF ~r.ok THEN SqlFail
      ELSE IF r.next > Len(t) THEN [ok |-> TRUE, val |-> Append(acc, r.val), next |-> r.next]
      ELSE IF Expect(t, r.next, ",(") THEN ScanRows(t, r.next + 1, Append(acc, r.val))
      ELSE SqlFail

\* the rows of "VALUES(...),(...)"; a text that is no VALUES clause is a
\* syntax error, and then the statement as a whole fails
ParseValues(t) ==
  IF Expect(t, 1, "VALUES(") THEN ScanRows(t, 2, <<>>) ELSE SqlFail


-----------------------------------------------------------------------------
(* Configuration *)

folder_name_landing == <<"image", "/", "landing">>
folder_name_archive == <<"image", "/", "archive">>
sample_image_name == <<"a", ".", "jpg">>
verbose == TRUE

prefix_landing == folder_name_landing \o <<"/">>

\* the directory the notebook runs in, as the single-row insert spells it
Cwd == <<"/home/jupyter/pics-to-keywords-on-gcp/">>

\* os.path.abspath of a path relative to the working directory
AbsPath(p) == Cwd \o p

-----------------------------------------------------------------------------
(* The table: a bag of rows *)

RECURSIVE SeqToBag(_)
SeqToBag(rows) ==
  IF rows = <<>> THEN EmptyBag ELSE SetToBag({Head(rows)}) (+) SeqToBag(Tail(rows))

FileNamesIn(b) == {r.file_name : r \in BagToSet(b)}

RowsOf(b, name) == {r \in BagToSet(b) : r.file_name = name}

\* the rows with name as file_name, counted with their copies
CountOf(b, name) ==
  BagCardinality([r \in RowsOf(b, name) |-> b[r]])

\* the statement without its WHERE clause: every row is kept
DedupKeepsAll(b) == {b}

\* the statement with WHERE row_number > 1: the row numbered 1 of every
\* partition is the one dropped
DedupDropsFirst(b) ==
  LET names == FileNamesIn(b)
      picks == {f \in [names -> BagToSet(b)] : \A n \in names : f[n].file_name = n}
  IN  {b (-) SetToBag({f[n] : n \in names}) : f \in picks}

\* a GROUP BY file_name in place of the window: the row kept for a file_name
\* is given the latest creation_date_time of the rows of its partition
DedupMergesTimes(b) ==
  LET names == FileNamesIn(b)
      picks == {f \in [names -> BagToSet(b)] : \A n \in names : f[n].file_name = n}
      latest(n) == CHOOSE t \in {r.creation_date_time : r \in RowsOf(b, n)} :
                     \A r \in RowsOf(b, n) : r.creation_date_time <= t
  IN  {SetToBag({[f[n] EXCEPT !.creation_date_time = latest(n)] : n \in names}) : f \in picks}

\* WHERE row_number = 1 over ROW_NUMBER() OVER (PARTITION BY file_name): the
\* window has no ORDER BY, so within a partition any row may be numbered 1.
\* The set of the tables the statement may produce from b.
DedupOutcomes(b) ==
  LET names == FileNamesIn(b)
      picks == {f \in [names -> BagToSet(b)] : \A n \in names : f[n].file_name = n}
  IN  {SetToBag({f[n] : n \in names}) : f \in picks}

\* a replace that is not atomic: the table is emptied, then the failure
DedupFailureTruncates(t) == EmptyBag

\* what a failed CREATE OR REPLACE TABLE ... AS SELECT leaves of the table t
DedupFailure(t) == t

-----------------------------------------------------------------------------
(* BigQuery jobs *)

\* bq_client.query(sql) creates the job and returns; the job runs on its own
Job(kind, sql) == [kind |-> kind, sql |-> sql, snap |-> <<>>]

RemoveAt(s, i) == SubSeq(s, 1, i - 1) \o SubSeq(s, i + 1, Len(s))

\* no statement has finished yet
NoLog == [kind |-> "none", ok |-> TRUE, again |-> FALSE, errors |-> FALSE]

\* the statement that finished last: its kind, whether it succeeded, whether
\* the statement finished just before it was of the same kind and succeeded,
\* and whether any statement so far has failed
Logged(kind, ok) ==
  [kind |-> kind, ok |-> ok,
   again |-> log.kind = kind /\ log.ok,
   errors |-> log.errors \/ ~ok]

Finish(i, ok) ==
  /\ jobs' = RemoveAt(jobs, i)
  /\ log' = Logged(jobs[i].kind, ok)
  /\ tableBefore' = table

\* CREATE OR REPLACE TABLE: the table is made anew, without rows
BqCreateOrReplace(i) ==
  /\ jobs[i].kind = "create"
  /\ tableExists' = TRUE
  /\ table' = EmptyBag
  /\ Finish(i, TRUE)

\* CREATE TABLE IF NOT EXISTS
BqCreate(i) ==
  /\ jobs[i].kind = "create"
  /\ tableExists' = TRUE
  /\ table' = IF tableExists THEN table ELSE EmptyBag
  /\ Finish(i, TRUE)

\* the rows of a VALUES clause that are read before the first error
RECURSIVE RowsBeforeError(_, _, _)
RowsBeforeError(t, i, acc) ==
  LET r == ScanRow(t, i)
  IN  IF ~r.ok THEN acc
      ELSE IF Expect(t, r.next, ",(") THEN RowsBeforeError(t, r.next + 1, Append(acc, r.val))
      ELSE Append(acc, r.val)

\* an insert that is run row by row: the rows before the first error stay
BqInsertRowByRow(i) ==
  /\ jobs[i].kind \in {"insert_one", "insert_many"}
  /\ LET p == ParseValues(jobs[i].sql)
         ok == tableExists /\ p.ok
         rows == IF Expect(jobs[i].sql, 1, "VALUES(")
                 THEN RowsBeforeError(jobs[i].sql, 2, <<>>) ELSE <<>>
     IN  /\ BagCardinality(table) + Len(rows) <= MaxRows
         /\ table' = IF tableExists THEN table (+) SeqToBag(rows) ELSE table
         /\ Finish(i, ok)
  /\ UNCHANGED tableExists

\* INSERT ... VALUES: one statement, all of its rows or an error
BqInsert(i) ==
  /\ jobs[i].kind \in {"insert_one", "insert_many"}
  /\ LET p == ParseValues(jobs[i].sql)
         ok == tableExists /\ p.ok
     IN  /\ ok => BagCardinality(table) + Len(p.val) <= MaxRows
         /\ table' = IF ok THEN table (+) SeqToBag(p.val) ELSE table
         /\ Finish(i, ok)
  /\ UNCHANGED tableExists

\* CREATE OR REPLACE TABLE ... AS SELECT: the query reads the table
BqDedupRead(i) ==
  /\ jobs[i].kind = "dedup"
  /\ jobs[i].snap = <<>>
  /\ IF tableExists
     THEN /\ jobs' = [jobs EXCEPT ![i].snap = <<table>>]
          /\ UNCHANGED <<log, tableBefore>>
     ELSE Finish(i, FALSE)
  /\ UNCHANGED <<tableExists, table>>

\* a replace under a lock on the table: the rows kept are chosen among the
\* rows the table holds when it is replaced
BqDedupCommitLocked(i) ==
  /\ jobs[i].kind = "dedup"
  /\ jobs[i].snap # <<>>
  /\ table' \in DedupOutcomes(table)
  /\ tableExists' = TRUE
  /\ jobs' = RemoveAt(jobs, i)
  /\ log' = Logged("dedup", TRUE)
  /\ tableBefore' = jobs[i].snap[1]

\* ... and its result replaces the table, in one step
BqDedupCommit(i) ==
  /\ jobs[i].kind = "dedup"
  /\ jobs[i].snap # <<>>
  /\ table' \in DedupOutcomes(jobs[i].snap[1])
  /\ tableExists' = TRUE
  /\ jobs' = RemoveAt(jobs, i)
  /\ log' = Logged("dedup", TRUE)
  /\ tableBefore' = jobs[i].snap[1]

\* DROP TABLE
BqDrop(i) ==
  /\ jobs[i].kind = "drop"
  /\ tableExists' = FALSE
  /\ table' = EmptyBag
  /\ Finish(i, tableExists)

\* a job ends in an error of the service: a statement that fails changes nothing
BqFail(i) ==
  /\ jobs[i].kind # "read"
  /\ table' = IF jobs[i].kind = "dedup" THEN DedupFailure(table) ELSE table
  /\ Finish(i, FALSE)
  /\ UNCHANGED tableExists


-----------------------------------------------------------------------------
(* Cloud Storage *)

\* how many versions of an image's bytes the model tells apart
MaxContent == 2

Contents == 1..MaxContent

prefix_archive_value == folder_name_archive \o <<"/">>

\* the object names of the model, in the order list_blobs returns names
ObjectNames ==
  << prefix_archive_value,
     prefix_archive_value \o <<"a", ".", "jpg">>,
     prefix_archive_value \o <<"b", ".", "jpg">>,
     prefix_archive_value \o <<"c">>,
     prefix_landing,
     prefix_landing \o <<"a", ".", "jpg">>,
     prefix_landing \o <<"b", ".", "jpg">>,
     prefix_landing \o <<"c">>,
     prefix_landing \o <<"sub", "/", "d", ".", "jpg">> >>

RECURSIVE SelectSeq2(_, _, _)
SelectSeq2(s, i, keep) ==
  IF i > Len(s) THEN <<>>
  ELSE (IF s[i] \in keep THEN <<s[i]>> ELSE <<>>) \o SelectSeq2(s, i + 1, keep)

\* a listing that takes no prefix: every object of the bucket
ListBlobsAnyPrefix(st, prefix) == SelectSeq2(ObjectNames, 1, DOMAIN st)

\* bucket.list_blobs(prefix = prefix, delimiter = '/'): the objects whose name
\* starts with prefix and has no '/' after it, the object named prefix included
ListBlobs(st, prefix) ==
  SelectSeq2(ObjectNames, 1,
             {n \in DOMAIN st :
                /\ StartsWith(n, prefix)
                /\ "/" \notin Range(SubSeq(n, Len(prefix) + 1, Len(n)))})

\* a loop without the test on the name: the placeholder is handled as well
ListedWithPlaceholder(st, prefix) == ListBlobs(st, prefix)

\* the blobs a loop handles: if (blob.name != prefix)
Listed(st, prefix) == SelectSeq(ListBlobs(st, prefix), LAMBDA n : n # prefix)

Without(st, n) == [m \in DOMAIN st \ {n} |-> st[m]]

\* blob copied to new_name, replacing what new_name held
CopyBlob(st, old, new) == (new :> st[old]) @@ st

\* a rename that leaves its source in place
RenameKeepsSource(st, old, new) == (new :> st[old]) @@ st

\* bucket.rename_blob(blob, new_name): copy, then delete the source unless
\* the two names are the same
RenameBlob(st, old, new) ==
  IF old = new THEN CopyBlob(st, old, new) ELSE Without(CopyBlob(st, old, new), old)

\* a loop whose interrupted rename has deleted its source and not copied it
RECURSIVE RenameLoopLosing(_, _, _, _, _, _)
RenameLoopLosing(st, blobs, from, to, k, how) ==
  IF blobs = <<>> THEN st
  ELSE LET old == Head(blobs)
           new == Replace(old, from, to)
       IN  IF k > 0
           THEN RenameLoopLosing(RenameBlob(st, old, new), Tail(blobs), from, to, k - 1, how)
           ELSE IF how = "copied" THEN [m \in DOMAIN st \ {old} |-> st[m]]
           ELSE st

\* the loop of the archive and restore cells over the listed blobs: the first
\* k renames complete; how == "ok" ends the loop, "error" is a call that fails
\* with nothing done, "copied" a rename that fails between its copy and its delete
RECURSIVE RenameLoop(_, _, _, _, _, _)
RenameLoop(st, blobs, from, to, k, how) ==
  IF blobs = <<>> THEN st
  ELSE LET old == Head(blobs)
           new == Replace(old, from, to)
       IN  IF k > 0 THEN RenameLoop(RenameBlob(st, old, new), Tail(blobs), from, to, k - 1, how)
           ELSE IF how = "copied" THEN CopyBlob(st, old, new)
           ELSE st

\* the lines '{blob.name} renamed to {new name}' printed by the first k renames
Printed(blobs, from, to, k) == [i \in 1..k |-> <<blobs[i], Replace(blobs[i], from, to)>>]

\* how a loop over n blobs may end after k complete renames
LoopEnds(n, k) ==
  IF k = n THEN (IF n = 0 THEN {"ok", "error"} ELSE {"ok"}) ELSE {"error", "copied"}


-----------------------------------------------------------------------------
(* The Vision API *)

\* the responses label_detection may give: label_annotations, each a
\* description with its score (in hundredths)
LabelResponses ==
  { <<>>,
    << [description |-> <<"car">>, score |-> 95] >>,
    << [description |-> <<"pet">>, score |-> 70],
       [description |-> <<"cat">>, score |-> 90],
       [description |-> <<"pet">>, score |-> 70] >> }

Descriptions(r) == [i \in 1..Len(r) |-> r[i].description]

Scores(r) == [i \in 1..Len(r) |-> r[i].score]

-----------------------------------------------------------------------------
(* The cells of the notebook *)

kernelVars == <<file_names, label_annotation_desc_dict, label_annotation_score_dict,
                prefix_archive, df>>
dictVars == <<label_annotation_desc_dict, label_annotation_score_dict>>
localVars == <<images, keywordsDir>>
tableVars == <<tableExists, table, log, tableBefore>>
storeVars == <<store, renamed, storeBefore, moved>>

\* a cell ends: it ran to its end, or it raised
Ran(ok) == raised' = ~ok

\* no cell has renamed blobs yet
NoMove == [name |-> "none", ok |-> TRUE, again |-> FALSE, retry |-> FALSE]

\* the cell that renamed blobs last: its name, whether it ran to its end, and
\* whether the cell that touched the bucket just before it was the same cell,
\* having run to its end (again) or having raised (retry)
Moved(name, ok) ==
  [name |-> name, ok |-> ok,
   again |-> moved.name = name /\ moved.ok,
   retry |-> moved.name = name /\ ~moved.ok]

LocalFile(name) == images # <<>> /\ name \in DOMAIN images[1]

\* 4: Copy images from GCS to the machine.  The first k listed blobs are
\* downloaded, with modification times m.  how == "ok" ends the loop; "error"
\* is get_bucket or the listing failing; a download that fails leaves its
\* file "removed" (the blob is gone) or "partial" (the transfer broke off).
CopyEnds(n, k) ==
  IF k = n THEN (IF n = 0 THEN {"ok", "error"} ELSE {"ok"})
  ELSE (IF k = 0 THEN {"error"} ELSE {}) \cup {"removed", "partial"}

CellCopy ==
  LET blobs == Listed(store, prefix_landing)
      n == Len(blobs)
      local == [i \in 1..n |-> <<"images/">> \o Replace(blobs[i], prefix_landing, <<>>)]
      dir == IF images = <<>> THEN <<>> ELSE images[1]
  IN  \E k \in 0..n : \E how \in CopyEnds(n, k) : \E m \in [1..n -> Times] :
        LET w == IF how = "partial" THEN k + 1 ELSE k
            got == [f \in {local[i] : i \in 1..w} |-> m[CHOOSE i \in 1..w : local[i] = f]]
            kept == IF how = "removed"
                    THEN [f \in DOMAIN dir \ {local[k + 1]} |-> dir[f]]
                    ELSE dir
        IN  /\ images' = << got @@ kept >>
            /\ file_names' = SubSeq(local, 1, k)
            /\ keywordsDir' = IF keywordsDir = <<>> THEN << {} >> ELSE keywordsDir
            /\ Ran(how = "ok")
            /\ UNCHANGED <<dictVars, prefix_archive, df, tableVars, jobs, storeVars>>

\* file_name.rsplit('.', 1)[0]
RECURSIVE BeforeLastDot(_)
BeforeLastDot(name) ==
  IF name[Len(name)] = "." THEN SubSeq(name, 1, Len(name) - 1)
  ELSE BeforeLastDot(SubSeq(name, 1, Len(name) - 1))

\* a loop that keeps the labels of a score of 80 hundredths or more only
RECURSIVE LabelLoopConfident(_, _, _, _)
LabelLoopConfident(names, resp, dir, st) ==
  IF names = <<>> THEN st
  ELSE LET name == Head(names)
           r == Head(resp)
           key == AbsPath(name)
           kept == SelectSeq(r.labels, LAMBDA l : l.score >= 80)
           st2 == [st EXCEPT !.desc = DictSet(st.desc, key, Descriptions(kept)),
                             !.score = DictSet(st.score, key, Scores(kept))]
           plot == Replace(BeforeLastDot(name), <<"images/">>, <<"keywords/">>)
                   \o <<"_keywords">>
       IN  IF "." \notin Range(name) THEN [st EXCEPT !.ok = FALSE]
           ELSE IF dir = <<>> \/ name \notin DOMAIN dir[1] THEN [st EXCEPT !.ok = FALSE]
           ELSE IF ~r.ok THEN [st EXCEPT !.ok = FALSE]
           ELSE IF verbose /\ r.labels = <<>> THEN [st EXCEPT !.ok = FALSE]
           ELSE IF st.plots = <<>> THEN [st2 EXCEPT !.ok = FALSE]
           ELSE LabelLoopConfident(Tail(names), Tail(resp), dir,
                                   [st2 EXCEPT !.plots = << @[1] \cup {plot} >>])

\* the loop of the label cell over file_names; resp[i] is what label_detection
\* does for the i-th file: a response, or an error of the call.  dir is the
\* directory 'images' and st.plots the directory 'keywords' (<<>> when absent).
RECURSIVE LabelLoop(_, _, _, _)
LabelLoop(names, resp, dir, st) ==
  IF names = <<>> THEN st
  ELSE LET name == Head(names)
           r == Head(resp)
           key == AbsPath(name)
           st2 == [st EXCEPT !.desc = DictSet(st.desc, key, Descriptions(r.labels)),
                             !.score = DictSet(st.score, key, Scores(r.labels))]
           plot == Replace(BeforeLastDot(name), <<"images/">>, <<"keywords/">>)
                   \o <<"_keywords">>
       IN  IF "." \notin Range(name) THEN [st EXCEPT !.ok = FALSE]
           ELSE IF dir = <<>> \/ name \notin DOMAIN dir[1] THEN [st EXCEPT !.ok = FALSE]
           ELSE IF ~r.ok THEN [st EXCEPT !.ok = FALSE]
           ELSE IF verbose /\ r.labels = <<>> THEN [st EXCEPT !.ok = FALSE]
           ELSE IF st.plots = <<>> THEN [st2 EXCEPT !.ok = FALSE]
           ELSE LabelLoop(Tail(names), Tail(resp), dir,
                          [st2 EXCEPT !.plots = << @[1] \cup {plot} >>])

\* the state the loop starts in: both dictionaries empty
LabelStart(plots) == [desc |-> <<>>, score |-> <<>>, ok |-> TRUE, plots |-> plots]

\* what label_detection may do for each of n files
Outcomes(n, responses) ==
  [1..n -> [ok : {TRUE}, labels : responses] \cup {[ok |-> FALSE, labels |-> <<>>]}]

\* 5: Generate keywords and display their score
CellLabel ==
  \E resp \in Outcomes(Len(file_names), LabelResponses) :
    LET st == LabelLoop(file_names, resp, images, LabelStart(keywordsDir))
    IN  /\ label_annotation_desc_dict' = st.desc
        /\ label_annotation_score_dict' = st.score
        /\ keywordsDir' = st.plots
        /\ Ran(st.ok)
        /\ UNCHANGED <<file_names, prefix_archive, df, images, tableVars, jobs, storeVars>>

\* bq_client.query(sql): the job is created, or the call raises
Submit(kind, sql) ==
  \/ /\ Len(jobs) < MaxJobs
     /\ jobs' = Append(jobs, Job(kind, sql))
     /\ Ran(TRUE)
  \/ /\ jobs' = jobs
     /\ Ran(FALSE)

\* 6: Create empty table
CellCreate ==
  /\ Submit("create", <<>>)
  /\ UNCHANGED <<kernelVars, localVars, tableVars, storeVars>>

\* a single-row insert dated with the time at which the cell is executed
\* (datetime.datetime.now()) and not with the modification time of the file
CellInsertOneNow ==
  LET file == <<"images/">> \o sample_image_name
      key == Cwd \o <<"images/">> \o sample_image_name
  IN  /\ IF LocalFile(file) /\ DictHas(label_annotation_desc_dict, key)
         THEN \E now \in Times :
                Submit("insert_one",
                       <<"VALUES(">> \o ValuesRow(key, now,
                                                   DictGet(label_annotation_desc_dict, key)))
         ELSE jobs' = jobs /\ Ran(FALSE)
      /\ UNCHANGED <<kernelVars, localVars, tableVars, storeVars>>

\* 6: Insert one row in the table
CellInsertOne ==
  LET file == <<"images/">> \o sample_image_name
      key == Cwd \o <<"images/">> \o sample_image_name
  IN  /\ IF LocalFile(file) /\ DictHas(label_annotation_desc_dict, key)
         THEN Submit("insert_one",
                     <<"VALUES(">> \o ValuesRow(key, images[1][file],
                                                 DictGet(label_annotation_desc_dict, key)))
         ELSE jobs' = jobs /\ Ran(FALSE)
      /\ UNCHANGED <<kernelVars, localVars, tableVars, storeVars>>

\* the file of the machine that the key of the dictionaries names
LocalOf(key) == SubSeq(key, Len(Cwd) + 1, Len(key))

RECURSIVE ValuesStr(_, _)
ValuesStr(d, values_str) ==
  IF d = <<>> THEN values_str
  ELSE LET key == d[1][1]
           row == ValuesRow(key, images[1][LocalOf(key)], d[1][2])
       IN  ValuesStr(Tail(d),
                     IF values_str = <<>> THEN <<"VALUES(">> \o row
                     ELSE values_str \o <<",(">> \o row)

\* 6: Insert multiple rows in the table
CellInsertMany ==
  /\ IF \A i \in 1..Len(label_annotation_desc_dict) :
          LocalFile(LocalOf(label_annotation_desc_dict[i][1]))
     THEN Submit("insert_many", ValuesStr(label_annotation_desc_dict, <<>>))
     ELSE jobs' = jobs /\ Ran(FALSE)
  /\ UNCHANGED <<kernelVars, localVars, tableVars, storeVars>>

\* 6: Drop duplicates
CellDropDuplicates ==
  /\ Submit("dedup", <<>>)
  /\ UNCHANGED <<kernelVars, localVars, tableVars, storeVars>>

\* 8: Clean up BigQuery
CellDropTable ==
  /\ Submit("drop", <<>>)
  /\ UNCHANGED <<kernelVars, localVars, tableVars, storeVars>>

\* 6: Read the contents of the table: the query is submitted ...
CellRead ==
  /\ \/ /\ Len(jobs) < MaxJobs
        /\ jobs' = Append(jobs, Job("read", <<>>))
        /\ UNCHANGED raised
     \/ /\ jobs' = jobs
        /\ Ran(FALSE)
  /\ UNCHANGED <<kernelVars, localVars, tableVars, storeVars>>

\* ... and query_job_read.result() returns its rows when the job has run,
\* or raises the error it ended in
ReadResult(i) ==
  /\ jobs[i].kind = "read"
  /\ \E ok \in {tableExists, FALSE} :
       /\ df' = IF ok THEN << table >> ELSE df
       /\ Ran(ok)
       /\ Finish(i, ok)
  /\ UNCHANGED <<file_names, dictVars, prefix_archive, localVars, tableExists, table,
                 storeVars>>

\* the loop of a cell that renames the blobs listed under from to to
MoveCell(name, from, to) ==
  LET blobs == Listed(store, from)
  IN  \E k \in 0..Len(blobs) : \E how \in LoopEnds(Len(blobs), k) :
        /\ store' = RenameLoop(store, blobs, from, to, k, how)
        /\ renamed' = Printed(blobs, from, to, k)
        /\ storeBefore' = IF moved.name = name /\ ~moved.ok THEN storeBefore ELSE store
        /\ moved' = Moved(name, how = "ok")
        /\ Ran(how = "ok")

\* 7: Archive processed images
CellArchive ==
  /\ prefix_archive' = << prefix_archive_value >>
  /\ MoveCell("archive", prefix_landing, prefix_archive_value)
  /\ UNCHANGED <<file_names, dictVars, df, localVars, tableVars, jobs>>

\* 8: Clean up: move the images back from archive to landing
CellRestore ==
  /\ IF prefix_archive = <<>>
     THEN Ran(FALSE) /\ UNCHANGED storeVars
     ELSE MoveCell("restore", prefix_archive[1], prefix_landing)
  /\ UNCHANGED <<kernelVars, localVars, tableVars, jobs>>

\* 8: Clean up the machine: shutil.rmtree('images'), shutil.rmtree('keywords')
CellCleanUp ==
  /\ images' = <<>>
  /\ keywordsDir' = IF images = <<>> THEN keywordsDir ELSE <<>>
  /\ Ran(images # <<>> /\ keywordsDir # <<>>)
  /\ UNCHANGED <<kernelVars, tableVars, jobs, storeVars>>


-----------------------------------------------------------------------------
(* BigQuery runs the jobs, each when it comes to it *)

BigQueryIdle == UNCHANGED <<kernelVars, localVars, storeVars, raised, pc>>

ExecCreate == \E i \in 1..Len(jobs) : BqCreate(i) /\ BigQueryIdle
ExecInsert == \E i \in 1..Len(jobs) : BqInsert(i) /\ BigQueryIdle
ExecDedupRead == \E i \in 1..Len(jobs) : BqDedupRead(i) /\ BigQueryIdle
ExecDedupCommit == \E i \in 1..Len(jobs) : BqDedupCommit(i) /\ BigQueryIdle
ExecDrop == \E i \in 1..Len(jobs) : BqDrop(i) /\ BigQueryIdle
ExecFail == \E i \in 1..Len(jobs) : BqFail(i) /\ BigQueryIdle

-----------------------------------------------------------------------------
(* Run All: the cells in the order of the notebook, up to the first exception *)

After(at) ==
  CASE at = "copy" -> "label"
    [] at = "label" -> "create"
    [] at = "create" -> "insert_one"
    [] at = "insert_one" -> "insert_many"
    [] at = "insert_many" -> "dedup"
    [] at = "dedup" -> "read"
    [] at = "read" -> "archive"
    [] at = "archive" -> "clean_up"
    [] at = "clean_up" -> "done"

Goes(at) == pc' = IF raised' THEN "aborted" ELSE After(at)

StepCopy == pc = "copy" /\ CellCopy /\ Goes("copy")
StepLabel == pc = "label" /\ CellLabel /\ Goes("label")
StepCreate == pc = "create" /\ CellCreate /\ Goes("create")
StepInsertOne == pc = "insert_one" /\ CellInsertOne /\ Goes("insert_one")
StepInsertMany == pc = "insert_many" /\ CellInsertMany /\ Goes("insert_many")
StepDropDuplicates == pc = "dedup" /\ CellDropDuplicates /\ Goes("dedup")
StepRead ==
  /\ pc = "read"
  /\ CellRead
  /\ pc' = IF jobs' = jobs THEN "aborted" ELSE "read_wait"
StepReadResult ==
  /\ pc = "read_wait"
  /\ \E i \in 1..Len(jobs) : ReadResult(i)
  /\ pc' = IF raised' THEN "aborted" ELSE After("read")
StepArchive == pc = "archive" /\ CellArchive /\ Goes("archive")
StepCleanUp == pc = "clean_up" /\ CellCleanUp /\ Goes("clean_up")

\* the tables a run may find: none, or one of at most MaxPrior rows
BagsUpTo(R, n) == {SeqToBag(s) : s \in UNION {[1..k -> R] : k \in 0..n}}

KeyOf(suffix) == AbsPath(<<"images/">> \o suffix)

PriorRows ==
  [file_name : {KeyOf(<<"a", ".", "jpg">>), KeyOf(<<"b", ".", "jpg">>)},
   creation_date_time : Times,
   keywords : {Descriptions(r) : r \in LabelResponses}]

\* the buckets a run may find: any of these objects, the archive empty
RunNames ==
  {prefix_landing, prefix_landing \o <<"a", ".", "jpg">>,
   prefix_landing \o <<"b", ".", "jpg">>, prefix_landing \o <<"c">>}

RunStores == UNION {[S -> {1}] : S \in SUBSET RunNames}

FreshKernel ==
  /\ file_names = <<>>
  /\ label_annotation_desc_dict = <<>>
  /\ label_annotation_score_dict = <<>>
  /\ prefix_archive = <<>>
  /\ df = <<>>
  /\ images = <<>>
  /\ keywordsDir = <<>>
  /\ renamed = <<>>
  /\ raised = FALSE
  /\ moved = NoMove
  /\ jobs = <<>>
  /\ log = NoLog

Init ==
  /\ store \in RunStores
  /\ storeBefore = store
  /\ tableExists \in BOOLEAN
  /\ table \in IF tableExists THEN BagsUpTo(PriorRows, MaxPrior) ELSE {EmptyBag}
  /\ tableBefore = table
  /\ FreshKernel
  /\ pc = "copy"

Next ==
  \/ StepCopy
  \/ StepLabel
  \/ StepCreate
  \/ StepInsertOne
  \/ StepInsertMany
  \/ StepDropDuplicates
  \/ StepRead
  \/ StepReadResult
  \/ StepArchive
  \/ StepCleanUp
  \/ ExecCreate
  \/ ExecInsert
  \/ ExecDedupRead
  \/ ExecDedupCommit
  \/ ExecFail

Spec == Init /\ [][Next]_vars


-----------------------------------------------------------------------------
(* Run All, and then the cells from the single-row insert on a second time *)

\* after the last cell the user goes back to the cell of the single-row insert
\* and runs the notebook from there
Rerun ==
  /\ pc = "done"
  /\ pc' = "insert_one"
  /\ UNCHANGED <<kernelVars, localVars, tableVars, jobs, storeVars, raised>>

\* the bucket of these runs holds the sample image
RerunInit ==
  /\ Init
  /\ DOMAIN store = {prefix_landing \o sample_image_name}

RerunNext == Next \/ Rerun

RerunSpec == RerunInit /\ [][RerunNext]_vars

-----------------------------------------------------------------------------
(* Run All on a table without rows *)

\* the run finds no table, or a table that holds no row
FreshInit ==
  /\ Init
  /\ table = EmptyBag

FreshSpec == FreshInit /\ [][Next]_vars

-----------------------------------------------------------------------------
(* Run All on a landing folder that receives images while the run goes on *)

\* the images that may be uploaded to the landing folder
Uploads ==
  {prefix_landing \o <<"a", ".", "jpg">>, prefix_landing \o <<"b", ".", "jpg">>}

\* an image that is not in the landing folder is uploaded to it: the bucket
\* is listed again by the archive cell, and holds then what it holds then
Upload ==
  /\ pc \notin {"done", "aborted"}
  /\ \E n \in Uploads \ DOMAIN store : store' = (n :> 1) @@ store
  /\ UNCHANGED <<kernelVars, localVars, tableVars, jobs, renamed, storeBefore, moved,
                 raised, pc>>

\* the run starts without a table
UploadInit ==
  /\ Init
  /\ ~tableExists

UploadNext == Next \/ Upload

UploadSpec == UploadInit /\ [][UploadNext]_vars

-----------------------------------------------------------------------------
(* A session: the user executes cells one at a time, in any order *)

Stays == pc = "idle" /\ pc' = "idle"

DoCreate == Stays /\ CellCreate
DoInsertOne == Stays /\ CellInsertOne
DoInsertMany == Stays /\ CellInsertMany
DoDropDuplicates == Stays /\ CellDropDuplicates
DoDropTable == Stays /\ CellDropTable
DoRead ==
  /\ pc = "idle"
  /\ CellRead
  /\ pc' = IF jobs' = jobs THEN "idle" ELSE "waiting"
DoReadResult ==
  /\ pc = "waiting"
  /\ \E i \in 1..Len(jobs) : ReadResult(i)
  /\ pc' = "idle"
DoArchive == Stays /\ CellArchive
DoRestore == Stays /\ CellRestore

\* the sequences made of some of the elements of a sequence of two, in its order
SubSeqs(s) == {<<>>, <<s[1]>>, <<s[2]>>, s}

\* the kernel once the copy cell and the label cell have run on one of the
\* lists of files, modified at one of the times, with the responses drawn from
\* responses
Labelled(lists, times, responses) ==
  \E names \in lists :
    \E m \in [1..Len(names) -> times] :
      \E resp \in [1..Len(names) -> [ok : {TRUE}, labels : responses]] :
        LET dir == << [f \in Range(names) |-> m[CHOOSE i \in 1..Len(names) : names[i] = f]] >>
            st == LabelLoop(names, resp, dir, LabelStart(<< {} >>))
        IN  /\ file_names = names
            /\ images = dir
            /\ keywordsDir = st.plots
            /\ label_annotation_desc_dict = st.desc
            /\ label_annotation_score_dict = st.score
            /\ raised = FALSE

Idle ==
  /\ pc = "idle"
  /\ jobs = <<>>
  /\ log = NoLog
  /\ df = <<>>
  /\ renamed = <<>>
  /\ moved = NoMove

(* Sessions on the table *)

TableInit ==
  /\ Labelled({<< <<"images/">> \o sample_image_name >>}, {MaxTime},
              LabelResponses \ {<<>>})
  /\ tableExists \in BOOLEAN
  /\ table \in IF tableExists THEN BagsUpTo(PriorRows, MaxPrior) ELSE {EmptyBag}
  /\ tableBefore = table
  /\ store = <<>>
  /\ storeBefore = store
  /\ prefix_archive = <<>>
  /\ Idle

TableNext ==
  \/ DoCreate
  \/ DoInsertOne
  \/ DoInsertMany
  \/ DoDropDuplicates
  \/ ExecCreate
  \/ ExecInsert
  \/ ExecDedupRead
  \/ ExecDedupCommit
  \/ ExecFail

TableSpec == TableInit /\ [][TableNext]_vars

(* Two runs on the same table: two kernels that have copied and labelled the *)
(* same files of the landing folder run their table cells, each in the order *)
(* of the notebook, interleaved in any way; pc[r] is the cell run r is at    *)

Runs == {1, 2}

\* run r has executed the cell it was at
Moves(r, at) ==
  pc' = [pc EXCEPT ![r] = IF raised' THEN "aborted"
                          ELSE IF at = "dedup" THEN "done" ELSE After(at)]

RunCreate == \E r \in Runs : pc[r] = "create" /\ CellCreate /\ Moves(r, "create")
RunInsertOne == \E r \in Runs : pc[r] = "insert_one" /\ CellInsertOne /\ Moves(r, "insert_one")
RunInsertMany ==
  \E r \in Runs : pc[r] = "insert_many" /\ CellInsertMany /\ Moves(r, "insert_many")
RunDropDuplicates ==
  \E r \in Runs : pc[r] = "dedup" /\ CellDropDuplicates /\ Moves(r, "dedup")

TwoRunsInit ==
  /\ Labelled({<< <<"images/">> \o sample_image_name >>}, {MaxTime},
              LabelResponses \ {<<>>})
  /\ tableExists \in BOOLEAN
  /\ table = EmptyBag
  /\ tableBefore = table
  /\ store = <<>>
  /\ storeBefore = store
  /\ prefix_archive = <<>>
  /\ jobs = <<>>
  /\ log = NoLog
  /\ df = <<>>
  /\ renamed = <<>>
  /\ moved = NoMove
  /\ pc = [r \in Runs |-> "create"]

TwoRunsNext ==
  \/ RunCreate
  \/ RunInsertOne
  \/ RunInsertMany
  \/ RunDropDuplicates
  \/ ExecCreate
  \/ ExecInsert
  \/ ExecDedupRead
  \/ ExecDedupCommit
  \/ ExecFail

TwoRunsSpec == TwoRunsInit /\ [][TwoRunsNext]_vars

(* The batch insert and the read, on identifiers and keywords with quotes *)

QuotedResponses ==
  { << [description |-> <<"car">>, score |-> 95] >>,
    << [description |-> <<"men", "'", "s">>, score |-> 80] >>,
    << [description |-> <<"6", "\"">>, score |-> 70],
       [description |-> <<"'", "\"">>, score |-> 60] >> }

SqlInit ==
  /\ Labelled(SubSeqs(<< <<"images/", "a", ".", "jpg">>,
                          <<"images/", "b", "'", ".", "jpg">> >>),
              Times, QuotedResponses)
  /\ tableExists \in BOOLEAN
  /\ table = EmptyBag
  /\ tableBefore = table
  /\ store = <<>>
  /\ storeBefore = store
  /\ prefix_archive = <<>>
  /\ Idle

SqlNext ==
  \/ DoCreate
  \/ DoInsertMany
  \/ DoRead
  \/ DoReadResult
  \/ ExecCreate
  \/ ExecInsert

SqlSpec == SqlInit /\ [][SqlNext]_vars

(* Sessions on the bucket *)

\* the buckets a session starts on: each object absent or present, the images
\* a.jpg and b.jpg with any content, the file c not archived yet
Buckets ==
  {st \in UNION {[S -> Contents] :
                   S \in SUBSET (Range(ObjectNames) \ {prefix_archive_value \o <<"c">>})} :
     \A n \in DOMAIN st :
       n \in {prefix_landing, prefix_archive_value, prefix_landing \o <<"c">>,
              prefix_landing \o <<"sub", "/", "d", ".", "jpg">>} => st[n] = 1}

StoreInit ==
  /\ store \in Buckets
  /\ storeBefore = store
  /\ prefix_archive \in {<<>>, << prefix_archive_value >>}
  /\ file_names = <<>>
  /\ images = <<>>
  /\ keywordsDir = <<>>
  /\ label_annotation_desc_dict = <<>>
  /\ label_annotation_score_dict = <<>>
  /\ raised = FALSE
  /\ tableExists = FALSE
  /\ table = EmptyBag
  /\ tableBefore = table
  /\ Idle

StoreNext ==
  \/ DoArchive
  \/ DoRestore

StoreSpec == StoreInit /\ [][StoreNext]_vars

(* The copy cell on any bucket *)

CopyInit ==
  /\ store \in Buckets
  /\ storeBefore = store
  /\ tableExists = FALSE
  /\ table = EmptyBag
  /\ tableBefore = table
  /\ FreshKernel
  /\ pc = "copy"

CopyNext == StepCopy

CopySpec == CopyInit /\ [][CopyNext]_vars

(* The copy cell and the label cell of a run *)

LabelNext ==
  \/ StepCopy
  \/ StepLabel

LabelSpec == Init /\ [][LabelNext]_vars

-----------------------------------------------------------------------------
(* Properties of a run (Spec) *)

\* the run went through every cell without an exception, every statement it
\* submitted has finished, and none of them failed
RunComplete == pc = "done" /\ jobs = <<>> /\ ~log.errors

\* C1: after one complete run the table holds exactly one row for every file
\* the run labelled, and the keywords of that row are the descriptions the
\* label service returned for the file in this run.
C1_OneRowPerFileWithItsLabels ==
  RunComplete =>
    \A i \in 1..Len(label_annotation_desc_dict) :
      LET key == label_annotation_desc_dict[i][1]
      IN  /\ CountOf(table, key) = 1
          /\ \A r \in RowsOf(table, key) : r.keywords = label_annotation_desc_dict[i][2]

\* C9: the run is sequential: a statement is issued only when every statement
\* issued before it has completed, so at no time are two statements in flight.
C9_OneStatementAtATime == Len(jobs) <= 1

\* C13: the keyword list recorded for a file is the sequence of the
\* descriptions of the response for that file: whatever label_detection
\* answers for the files of the run, the i-th entry the label cell makes is
\* keyed by the i-th file's own identifier and holds the descriptions of the
\* i-th response, all of them, in the order of the response.
C13_KeywordsAreTheDescriptions ==
  pc = "label" =>
    \A resp \in Outcomes(Len(file_names), LabelResponses) :
      LET st == LabelLoop(file_names, resp, images, LabelStart(keywordsDir))
      IN  /\ Len(st.desc) <= Len(file_names)
          /\ \A i \in 1..Len(st.desc) :
               /\ st.desc[i][1] = Cwd \o file_names[i]
               /\ Len(st.desc[i][2]) = Len(resp[i].labels)
               /\ \A j \in 1..Len(resp[i].labels) :
                    st.desc[i][2][j] = resp[i].labels[j].description

\* the label cell has recorded two files, one with the three descriptions of
\* a response that holds a description twice and is not ordered by score,
\* the other with another list
C13_Witness ==
  /\ pc \notin {"copy", "label", "aborted"}
  /\ Len(label_annotation_desc_dict) = 2
  /\ label_annotation_desc_dict[1][2] = << <<"pet">>, <<"cat">>, <<"pet">> >>
  /\ label_annotation_desc_dict[2][2] = << <<"car">> >>

\* C20: an empty label response is not fatal: when label_detection answers
\* every file of the run, each of a name with an extension, the label cell
\* runs to its end, and a file for which no label is returned is recorded
\* with an empty keyword list.
C20_EmptyResponseIsNotFatal ==
  pc = "label" =>
    \A resp \in Outcomes(Len(file_names), LabelResponses) :
      (\A i \in 1..Len(file_names) : resp[i].ok /\ "." \in Range(file_names[i])) =>
        LET st == LabelLoop(file_names, resp, images, LabelStart(keywordsDir))
        IN  /\ st.ok
            /\ Len(st.desc) = Len(file_names)
            /\ \A i \in 1..Len(file_names) :
                 resp[i].labels = <<>> => st.desc[i] = <<Cwd \o file_names[i], <<>> >>

\* C15: the local scratch storage is released on every exit path: when the
\* run has ended, at its last cell or at an exception, the directories
\* 'images' and 'keywords' are removed.
C15_ScratchReleasedAtEveryExit ==
  pc \in {"done", "aborted"} => images = <<>> /\ keywordsDir = <<>>

\* C17: every remote-call failure aborts the run: once a cell has raised or a
\* table statement has failed, no later cell is executed, and no object of
\* the bucket is renamed.
C17_FailureAbortsTheRun ==
  [][(raised \/ log.errors) => (pc' \in {pc, "aborted"} /\ store' = store)]_vars

-----------------------------------------------------------------------------
(* Properties of a second pass (RerunSpec) *)

\* the second pass is at the cell of the single-row insert: the archive cell
\* of the first pass has run
SecondPass == pc = "insert_one" /\ moved.name = "archive"

\* C14: re-running is tolerated: when the record, deduplicate and archive
\* stages are run a second time after a completed run, the cell of the
\* single-row insert finds the file and the dictionary entry it reads, so that
\* the pass is not ended by an exception of the notebook's own.
C14_RerunIsTolerated ==
  SecondPass =>
    /\ LocalFile(<<"images/">> \o sample_image_name)
    /\ DictHas(label_annotation_desc_dict, Cwd \o <<"images/">> \o sample_image_name)

-----------------------------------------------------------------------------
(* Properties of the deduplicate statement (TableSpec) *)

Deduplicated == log.kind = "dedup" /\ log.ok

\* the record the batch insert serializes for the i-th entry of the dictionary
Record(i) ==
  LET key == label_annotation_desc_dict[i][1]
  IN  [file_name |-> key,
       creation_date_time |-> images[1][LocalOf(key)],
       keywords |-> label_annotation_desc_dict[i][2]]

\* C2: after a completed deduplicate the table holds at most one row per
\* file_name, and exactly one row for every file_name of the table the
\* statement read, whatever inserts came before it.
C2_OneRowPerFileName ==
  Deduplicated =>
    /\ \A n \in FileNamesIn(table) : CountOf(table, n) = 1
    /\ FileNamesIn(table) = FileNamesIn(tableBefore)

\* a deduplicate has completed on a table that held one file_name several
\* times, next to another file_name
C2_Witness ==
  /\ Deduplicated
  /\ \E n \in FileNamesIn(tableBefore) : CountOf(tableBefore, n) > 1
  /\ Cardinality(FileNamesIn(tableBefore)) > 1

\* C3: deduplicate is idempotent: on the table a completed deduplicate leaves,
\* a second deduplicate has one outcome only, that same table, whichever row
\* it numbers 1 in each partition.
C3_DedupIdempotent == Deduplicated => DedupOutcomes(table) = {table}

\* two deduplicates have completed one after the other, the second on the
\* table the first left, and the table is not empty
C3_Witness ==
  /\ Deduplicated
  /\ log.again
  /\ tableBefore = table
  /\ table # EmptyBag

\* C8: deduplicate is one atomic replace: when it has ended, in success or in
\* failure, the table is the whole table it read or a whole deduplicated
\* table, never a part of either.
C8_DedupAtomicReplace ==
  log.kind = "dedup" => table = tableBefore \/ table \in DedupOutcomes(tableBefore)

\* a deduplicate has failed on a table that exists and holds duplicates
C8_Witness ==
  /\ log.kind = "dedup"
  /\ ~log.ok
  /\ tableExists
  /\ \E n \in FileNamesIn(tableBefore) : CountOf(tableBefore, n) > 1

\* C11: a record is superseded by a later insert of its identifier: the rows
\* a session inserts come after the rows the table held at its start, so when
\* a completed deduplicate has read a table that held the record the session
\* inserts, the row that survives for its identifier is that record.
C11_LaterInsertSurvives ==
  Deduplicated =>
    \A i \in 1..Len(label_annotation_desc_dict) :
      Record(i) \in BagToSet(tableBefore) => Record(i) \in BagToSet(table)

\* C12: records are removed only by dropping the table: no step of a session
\* made of create, single-row insert, batch insert and deduplicate takes a
\* file identifier out of the set of the identifiers that have a row.
C12_IdentifiersAreNeverLost ==
  [][FileNamesIn(table) \subseteq FileNamesIn(table')]_vars

\* C19: deduplicate never fabricates or merges rows: every row of the table
\* a completed deduplicate leaves is, in its three fields, a row of the table
\* the deduplicate read.
C19_DedupKeepsRowsAsTheyWere ==
  Deduplicated => BagToSet(table) \subseteq BagToSet(tableBefore)

\* a deduplicate has completed on a table that held, for one file_name, two
\* rows of different keywords and different times
C19_Witness ==
  /\ Deduplicated
  /\ \E r1, r2 \in BagToSet(tableBefore) :
       /\ r1.file_name = r2.file_name
       /\ r1.keywords # r2.keywords
       /\ r1.creation_date_time # r2.creation_date_time

-----------------------------------------------------------------------------
(* Properties of two runs on one table (TwoRunsSpec) *)

\* both runs have executed their cells to the last, every statement has
\* finished and none has failed
BothRunsFinished ==
  /\ \A r \in Runs : pc[r] = "done"
  /\ jobs = <<>>
  /\ ~log.errors

-----------------------------------------------------------------------------
(* Properties of the batch insert and the read (SqlSpec) *)

C7_BatchAllOrNothing ==
  (log.kind = "insert_many" /\ ~log.ok) => table = tableBefore

\* a batch of two records has failed on a table that exists, the first of
\* its records being read without an error
C7_Witness ==
  /\ log.kind = "insert_many"
  /\ ~log.ok
  /\ tableExists
  /\ Len(label_annotation_desc_dict) = 2
  /\ RowsBeforeError(ValuesStr(label_annotation_desc_dict, <<>>), 2, <<>>) # <<>>

-----------------------------------------------------------------------------
(* Properties of the copy cell (CopySpec) *)

\* the objects directly under the landing prefix: their name is the prefix
\* followed by a name that is not empty and holds no '/'
Pending ==
  {n \in DOMAIN store :
     /\ Len(n) > Len(prefix_landing)
     /\ SubSeq(n, 1, Len(prefix_landing)) = prefix_landing
     /\ \A k \in Len(prefix_landing) + 1..Len(n) : n[k] # "/"}

\* the local name of an object of the landing folder
LocalName(n) == <<"images/">> \o SubSeq(n, Len(prefix_landing) + 1, Len(n))

\* C18: when the copy cell has run to its end, file_names holds the local
\* name 'images/' + (name without the landing prefix) of every object directly
\* under the landing prefix, each once, and nothing else (not the placeholder,
\* no object of another prefix or of a sub-folder), and each of these files
\* has been downloaded.
C18_PendingListIsTheLandingFolder ==
  pc = "label" =>
    /\ Len(file_names) = Cardinality(Pending)
    /\ \A n \in Pending : \E i \in 1..Len(file_names) : file_names[i] = LocalName(n)
    /\ \A i \in 1..Len(file_names) : file_names[i] \in DOMAIN images[1]

\* the copy cell has run to its end on a bucket that holds the placeholder
\* of the landing folder, two files or more in it, a file in a sub-folder of
\* it and a file in the archive folder
C18_Witness ==
  /\ pc = "label"
  /\ Len(file_names) >= 2
  /\ prefix_landing \in DOMAIN store
  /\ prefix_landing \o <<"sub", "/", "d", ".", "jpg">> \in DOMAIN store
  /\ prefix_archive_value \o <<"a", ".", "jpg">> \in DOMAIN store

-----------------------------------------------------------------------------
(* Properties of the archive cell (StoreSpec) *)

Archived == moved.name = "archive" /\ moved.ok

\* the name an object of the landing folder has in the archive folder
ArchiveName(n) == prefix_archive_value \o SubSeq(n, Len(prefix_landing) + 1, Len(n))

\* every object listed under the landing prefix in before is in after under
\* its archive name, with its content, and no longer under its landing name
AllMoved(before, after) ==
  \A n \in Range(Listed(before, prefix_landing)) :
    /\ ArchiveName(n) \in DOMAIN after
    /\ after[ArchiveName(n)] = before[n]
    /\ n \notin DOMAIN after

\* C4: archive is idempotent per object: an archive executed right after a
\* completed archive issues no rename, and every object under the archive
\* prefix keeps its name and its content.
C4_ArchiveAgainRenamesNothing ==
  (moved.name = "archive" /\ moved.again) =>
    /\ renamed = <<>>
    /\ \A n \in DOMAIN storeBefore :
         StartsWith(n, prefix_archive_value) =>
           n \in DOMAIN store /\ store[n] = storeBefore[n]

\* the archive cell has run to its end twice in a row, with images in the
\* archive folder
C4_Witness ==
  /\ Archived
  /\ moved.again
  /\ Listed(store, prefix_archive_value) # <<>>

\* C6: a completed archive has renamed every object listed under the landing
\* prefix from landing_prefix + s to archive_prefix + s, and none of them is
\* listed under the landing prefix any more.
C6_ArchiveMovesEveryListedObject ==
  (Archived /\ ~moved.retry) =>
    /\ AllMoved(storeBefore, store)
    /\ Listed(store, prefix_landing) = <<>>

\* an archive has completed at its first try on a landing folder of two
\* images or more
C6_Witness ==
  /\ Archived
  /\ ~moved.retry
  /\ Len(Listed(storeBefore, prefix_landing)) >= 2
  /\ Len(renamed) >= 2

\* C10: archive is recoverable by executing it again: when an archive that
\* was interrupted is followed by an archive that completes, every object
\* that was listed under the landing prefix at the first try is under its
\* archive name, once, with its content, and none is left in landing.
C10_ArchiveRecoversByRerun ==
  (Archived /\ moved.retry) =>
    /\ AllMoved(storeBefore, store)
    /\ Listed(store, prefix_landing) = <<>>

\* an archive has completed after an archive that was interrupted with some
\* of two or more images renamed, the rest being renamed by the second
C10_Witness ==
  /\ Archived
  /\ moved.retry
  /\ Len(Listed(storeBefore, prefix_landing)) >= 2
  /\ renamed # <<>>
  /\ Len(renamed) < Len(Listed(storeBefore, prefix_landing))

-----------------------------------------------------------------------------
(* Properties of the archive cell in a run (Spec) *)

\* the identifier under which the run records the object named n
RecordedAs(n) == KeyOf(SubSeq(n, Len(prefix_landing) + 1, Len(n)))

\* C21: archived implies recorded: whenever the archive cell of a run renames
\* an object from the landing prefix to the archive prefix, the table holds
\* at that time a row for the file identifier of that object.
C21_ArchivedImpliesRecorded ==
  [][pc = "archive" =>
       \A i \in 1..Len(renamed') :
         tableExists /\ RecordedAs(renamed'[i][1]) \in FileNamesIn(table)]_vars

\* the files of the machine that the run has downloaded and labelled
Processed ==
  {f \in Range(file_names) : DictHas(label_annotation_desc_dict, AbsPath(f))}

\* the objects the archive cell has renamed, by the name of their local file
ArchivedByRun == {LocalName(renamed[i][1]) : i \in 1..Len(renamed)}

\* C22: the set of objects a run moves to the archive is the set of objects
\* the same run has downloaded and labelled, also when an object is uploaded
\* to the landing folder between the listing of the copy cell and the archive
\* cell: no object is archived unprocessed.
C22_ArchivedAreTheProcessed ==
  (moved.name = "archive" /\ moved.ok) =>
    /\ ArchivedByRun = Processed
    /\ Processed = Range(file_names)

-----------------------------------------------------------------------------
(* Properties of the archive and restore cells on any bucket (StoreSpec) *)

\* the objects of a bucket under the landing prefix and under the archive
\* prefix together
UnderBoth(st) ==
  {n \in DOMAIN st : StartsWith(n, prefix_landing) \/ StartsWith(n, prefix_archive_value)}

\* C23: archive conserves objects: a completed archive destroys no object,
\* so the bucket holds as many objects under the landing and archive prefixes
\* together after it as before it, also when the archive prefix held an
\* object with the relative name of a landing object.
C23_ArchiveConservesObjects ==
  (Archived /\ ~moved.retry) =>
    Cardinality(UnderBoth(store)) = Cardinality(UnderBoth(storeBefore))

\* the names of the objects of a bucket under a prefix
NamesUnder(st, prefix) == {n \in DOMAIN st : StartsWith(n, prefix)}

\* C24: archive followed by restore is a round trip on the bucket: when the
\* restore cell completes right after a completed archive, the sets of
\* object names under the landing prefix and under the archive prefix are
\* those of the bucket before the archive, whatever the archive prefix held.
C24_ArchiveRestoreRoundTrip ==
  [][(Archived /\ ~moved.retry /\ moved'.name = "restore" /\ moved'.ok) =>
       /\ NamesUnder(store', prefix_landing) = NamesUnder(storeBefore, prefix_landing)
       /\ NamesUnder(store', prefix_archive_value) =
            NamesUnder(storeBefore, prefix_archive_value)]_vars

-----------------------------------------------------------------------------
(* Properties of a run on a table without rows (FreshSpec) *)

\* C25: the final table of a single run is deterministic despite the
\* arbitrary tie-break of deduplicate: in a run that starts from an empty
\* table the rows inserted for one identifier are equal, so the table a
\* completed deduplicate has produced is the only table it could produce
\* from the rows it read, whichever duplicate it keeps.
C25_TieBreakDoesNotShow ==
  Deduplicated => DedupOutcomes(tableBefore) = {table}

\* the run is at its end, deduplicate was its last statement, and it read
\* the row of the sample image twice: from the single-row insert and from
\* the batch insert
C25_Witness ==
  /\ RunComplete
  /\ Deduplicated
  /\ CountOf(tableBefore, KeyOf(sample_image_name)) = 2
  /\ CountOf(table, KeyOf(sample_image_name)) = 1

-----------------------------------------------------------------------------
(* Properties of a run on an empty landing folder (Spec) *)

\* the run found no object to process under the landing prefix
NothingPending == Listed(storeBefore, prefix_landing) = <<>>

\* C26: a run over an empty landing prefix changes nothing: at every step of
\* such a run the dictionary of the keywords is empty, it has no entry for
\* the sample image, the batch insert would have no VALUES clause, no insert
\* statement that BigQuery accepts is in flight, and the step leaves the rows
\* of the table and the objects of the bucket as they were.
C26_EmptyLandingChangesNothing ==
  [][NothingPending =>
       /\ label_annotation_desc_dict' = <<>>
       /\ ~DictHas(label_annotation_desc_dict', KeyOf(sample_image_name))
       /\ ValuesStr(label_annotation_desc_dict', <<>>) = <<>>
       /\ ~ParseValues(ValuesStr(label_annotation_desc_dict', <<>>)).ok
       /\ \A i \in 1..Len(jobs') :
            jobs'[i].kind \in {"insert_one", "insert_many"} => ~ParseValues(jobs'[i].sql).ok
       /\ table' = table
       /\ store' = store]_vars

\* a run on a bucket that holds the placeholder of the landing folder only,
\* and on a table with a row, has ended at the single-row insert; its create
\* statement has been executed
C26_Witness ==
  /\ NothingPending
  /\ prefix_landing \in DOMAIN store
  /\ table # EmptyBag
  /\ pc = "aborted"
  /\ raised
  /\ jobs = <<>>
  /\ log.kind = "create"
  /\ log.ok
  /\ images # <<>>

=============================================================================
